---- MODULE Spec2Model ----
(***************************************************************************)
(* A model of src/lib/release_session.js: the resumable session store      *)
(* (class ReleaseSession) and the patch-landing pipeline (class CheckPick). *)
(*                                                                         *)
(* Strings are sequences of tokens (a word, ":", a space, a line break),   *)
(* so that trim, split, join, includes and the three regular expressions   *)
(* of _amend are computed, not assumed.                                    *)
(***************************************************************************)
EXTENDS Integers, Sequences, FiniteSets, TLC

\* ------------------------------------------------------------------ bounds
\* Number of distinct commit ids a pull request may carry.
MaxSha == 3
\* Number of lines after the subject line in HEAD's commit message.
MaxBody == 2
\* Number of lines in the generated metadata block.
MaxMeta == 2

\* ----------------------------------------------------------------- strings
NL == "\n"
SP == " "

IsWs(t) == t \in {NL, SP}

SetMin(S) == CHOOSE x \in S : \A y \in S : x <= y
SetMax(S) == CHOOSE x \in S : \A y \in S : y <= x

\* String.prototype.trim
Trim(s) ==
  LET keep == {i \in 1..Len(s) : ~IsWs(s[i])}
  IN IF keep = {} THEN <<>> ELSE SubSeq(s, SetMin(keep), SetMax(keep))

\* String.prototype.split('\n'): always at least one element
RECURSIVE Split(_)
Split(s) ==
  LET nl == {i \in 1..Len(s) : s[i] = NL}
  IN IF nl = {} THEN <<s>>
     ELSE <<SubSeq(s, 1, SetMin(nl) - 1)>> \o Split(SubSeq(s, SetMin(nl) + 1, Len(s)))

\* Array.prototype.join('\n')
RECURSIVE Join(_)
Join(lines) ==
  IF Len(lines) = 0 THEN <<>>
  ELSE IF Len(lines) = 1 THEN lines[1]
  ELSE lines[1] \o <<NL>> \o Join(Tail(lines))

\* String.prototype.includes: sub occurs as a contiguous substring of s
Includes(s, sub) ==
  \E i \in 0..(Len(s) - Len(sub)) : SubSeq(s, i + 1, i + Len(sub)) = sub

\* /<key>\s*:\s*(\S+)/ : not anchored, so the key may start anywhere
MatchesKey(s, key) ==
  \E k \in 1..Len(s) :
    /\ k + Len(key) - 1 <= Len(s)
    /\ SubSeq(s, k, k + Len(key) - 1) = key
    /\ \E c \in (k + Len(key))..Len(s) :
         /\ s[c] = ":"
         /\ \A j \in (k + Len(key))..(c - 1) : IsWs(s[j])
         /\ \E v \in (c + 1)..Len(s) :
              /\ ~IsWs(s[v])
              /\ \A j \in (c + 1)..(v - 1) : IsWs(s[j])

BACKPORT_RE(s) == MatchesKey(s, <<"Backport-", "PR-URL">>)
PR_RE(s) == MatchesKey(s, <<"PR-URL">>)
REVIEW_RE(s) == MatchesKey(s, <<"Reviewed-By">>)

\* amended.findIndex(datum => datum.match(PR_RE)): zero-based, -1 if none
FindIndexPR(arr) ==
  LET hits == {i \in 1..Len(arr) : PR_RE(arr[i])}
  IN IF hits = {} THEN -1 ELSE SetMin(hits) - 1

\* amended.findIndex(datum => datum.match(REVIEW_RE)): zero-based, -1 if none
FindIndexReview(arr) ==
  LET hits == {i \in 1..Len(arr) : REVIEW_RE(arr[i])}
  IN IF hits = {} THEN -1 ELSE SetMin(hits) - 1

\* Array.prototype.splice(start, 0, item): a negative start counts from the end
Splice(arr, start, item) ==
  LET len == Len(arr)
      at == IF start < 0 THEN (IF len + start < 0 THEN 0 ELSE len + start)
            ELSE (IF start > len THEN len ELSE start)
  IN SubSeq(arr, 1, at) \o <<item>> \o SubSeq(arr, at + 1, len)


\* ------------------------------------------------- git interpret-trailers
\* A line git accepts as a trailer: a key of word tokens, then the separator.
IsTrailerLine(l) ==
  \E c \in 2..Len(l) :
    /\ l[c] = ":"
    /\ \A j \in 1..(c - 1) : l[j] \notin {":", SP, NL}

IsBlankLine(l) == \A j \in 1..Len(l) : IsWs(l[j])

\* `git interpret-trailers --parse --no-divider` prints something iff the
\* message has a trailer block: the first paragraph is the title and is
\* never one; the block is the last paragraph, all of whose lines are
\* trailers (no line here carries a git-generated prefix, so the 25% rule
\* never applies).
InterpretTrailers(message) ==
  LET lines == Split(Trim(message))
      blanks == {i \in 1..Len(lines) : IsBlankLine(lines[i])}
  IN /\ blanks # {}
     /\ \A i \in (SetMax(blanks) + 1)..Len(lines) : IsTrailerLine(lines[i])

\* ------------------------------------------------------------ CheckPick._amend
\* An insertion that puts the backport line at the anchor's own index.
InsertLineAtAnchor(amended, line) ==
  IF BACKPORT_RE(line)
  THEN LET prIndex == IF FindIndexPR(amended) = -1
                      THEN FindIndexReview(amended) - 1
                      ELSE FindIndexPR(amended)
       IN Splice(amended, prIndex, line)
  ELSE Append(amended, line)

\* An insertion whose fallback forgets the - 1 and lands after the reviewer line.
InsertLineAfterReviewer(amended, line) ==
  IF BACKPORT_RE(line)
  THEN LET prIndex == IF FindIndexPR(amended) = -1
                      THEN FindIndexReview(amended)
                      ELSE FindIndexPR(amended)
       IN Splice(amended, prIndex + 1, line)
  ELSE Append(amended, line)

\* lines 420-428: where one generated line goes
InsertLine(amended, line) ==
  IF BACKPORT_RE(line)
  THEN LET prIndex == IF FindIndexPR(amended) = -1
                      THEN FindIndexReview(amended) - 1
                      ELSE FindIndexPR(amended)
       IN Splice(amended, prIndex + 1, line)
  ELSE Append(amended, line)

\* A presence test that compares whole lines instead of searching the text.
AlreadyPresentWholeLine(original, line) ==
  Len(line) # 0 /\ \E i \in 1..Len(Split(original)) : Split(original)[i] = line

\* lines 411-412: the line counts as already present
AlreadyPresent(original, line) == Len(line) # 0 /\ Includes(original, line)

\* lines 410-430: the loop over the generated lines, from line i on
RECURSIVE AmendLoop(_, _, _, _, _)
AmendLoop(original, originalHasTrailers, metadata, i, amended) ==
  IF i > Len(metadata) THEN [thrown |-> FALSE, amended |-> amended]
  ELSE IF AlreadyPresent(original, metadata[i])
       THEN IF originalHasTrailers
            THEN AmendLoop(original, originalHasTrailers, metadata, i + 1, amended)
            ELSE [thrown |-> TRUE, amended |-> amended]
       ELSE AmendLoop(original, originalHasTrailers, metadata, i + 1,
                      InsertLine(amended, metadata[i]))

\* A start that adds the empty line whether or not git found trailers.
InitialAmendedAlwaysBlank(original, originalHasTrailers) ==
  Append(Split(original), <<>>)

\* A start that never adds the empty line.
InitialAmendedNoBlank(original, originalHasTrailers) == Split(original)

\* lines 396-404: the lines the loop starts from
InitialAmended(original, originalHasTrailers) ==
  IF originalHasTrailers THEN Split(original) ELSE Append(Split(original), <<>>)

\* lines 395-431: the amended lines, or thrown
Reconcile(original, originalHasTrailers, metadata) ==
  AmendLoop(original, originalHasTrailers, metadata, 1,
            InitialAmended(original, originalHasTrailers))

\* ------------------------------------------------------------------ inputs
Subject == <<"Fix">>
Blank == <<>>
PrUrl1 == <<"PR-URL", ":", SP, "u1">>
Backport1 == <<"Backport-", "PR-URL", ":", SP, "u1">>
Backport2 == <<"Backport-", "PR-URL", ":", SP, "u2">>
Reviewed == <<"Reviewed-By", ":", SP, "a">>
Refs == <<"Refs", ":", SP, "u1">>

BodyLines == {Subject, Blank, PrUrl1, Backport1, Reviewed, Refs}
MetaLines == {Blank, PrUrl1, Backport1, Backport2, Reviewed}

SeqsUpTo(S, n) == UNION {[1..k -> S] : k \in 0..n}

\* What `git show HEAD -s --format=%B` prints: the subject, the body lines
\* (git strips trailing blank lines when it commits) and a final line break.
RawMessages ==
  {Join(<<Subject>> \o body) \o <<NL>> :
     body \in {b \in SeqsUpTo(BodyLines, MaxBody) : Len(b) = 0 \/ b[Len(b)] # Blank}}

\* The metadata block the provider returns, one line break after each line.
MetadataStrs ==
  {Join(m) \o (IF Len(m) = 0 THEN <<>> ELSE <<NL>>) : m \in SeqsUpTo(MetaLines, MaxMeta)}


\* Commit ids of the pull request, oldest first, as the metadata provider
\* lists them (line 275): the ascending lists over 1..MaxSha.
ExpectedLists ==
  {e \in SeqsUpTo(1..MaxSha, MaxSha) : \A i \in 1..(Len(e) - 1) : e[i] < e[i + 1]}

\* What `git rev-list base..head` prints (line 308): newest first.
FetchedLists == {[i \in 1..n |-> n + 1 - i] : n \in 0..MaxSha}

\* A commit of the local branch: the pull-request commit it was picked from
\* (0: a commit that was already on the branch) and how often it was rewritten.
StrayCommit == [src |-> 0, rev |-> 0]

NoSequencer == [active |-> FALSE, orig |-> <<>>]

\* ------------------------------------------------------------------- state
VARIABLES
  pc,                  \* where CheckPick.start stands
  expectedCommitShas,  \* start: the ids the metadata provider expects
  commitShas,          \* downloadAndPatch: the ids fetched (commitInfo.shas)
  local,               \* the local branch: its commits on top of upstream/branch
  sequencer,           \* git's cherry-pick state: in progress, and the HEAD to restore
  todo,                \* git cherry-pick: the commits still to apply
  issued,              \* the git commands run that change the repository
  prompts,             \* the questions the operator was asked
  headMsg,             \* HEAD's commit message as git show prints it
  original,            \* _amend: the trimmed original message
  originalHasTrailers, \* _amend: git's answer
  metadata,            \* _amend: the generated lines
  message,             \* _amend: the amended message
  messageFile,         \* the saved COMMIT_EDITMSG file: exists, content
  result,              \* what start returned: "none", "true", "false"
  error,               \* the reason of a failure
  local0,              \* the local branch when start was called
  pickFailedAt,        \* the position in the range of the commit whose pick failed
  answers,             \* the questions the operator answered yes to
  validator,           \* validateCommitAndFinish: the validator's exit, "not run" when it is skipped
  willBeLanded,        \* validateCommitAndFinish: the form of the landed revision printed
  sameSet,             \* history: the fetched and the expected ids were the same set
  lintFailed,          \* history: make lint ran and failed
  sessionFile,         \* the persisted session: kind, state, prid, config
  prid,                \* ReleaseSession: this.prid
  config,              \* ReleaseSession: this.config
  pullDirs,            \* the per-pull-request scratch directories that exist
  call                 \* ReleaseSession: the last method called and the state before it

landVars == <<pc, expectedCommitShas, commitShas, local, sequencer, todo, issued,
              prompts, headMsg, original, originalHasTrailers, metadata, message,
              messageFile, result, error, local0, pickFailedAt>>
sessVars == <<sessionFile, prid, config, pullDirs, call>>
runVars == <<answers, validator, willBeLanded, sameSet, lintFailed>>
vars == <<landVars, sessVars, runVars>>

\* git rev-parse HEAD: the branch's history determines the revision
GetCurrentRev(branch) == branch

\* ------------------------------------------------- CheckPick.downloadAndPatch
InSeq(seq, x) == \E i \in 1..Len(seq) : seq[i] = x

SetOf(seq) == {seq[i] : i \in 1..Len(seq)}

\* A comparison that reports the unexpected commits and forgets the missing ones.
MismatchedCommitsUnexpectedOnly(fetched, expected) ==
  SelectSeq([i \in 1..Len(fetched) |-> <<"Unexpected commit", fetched[i]>>],
            LAMBDA m : ~\E j \in 1..Len(expected) : expected[j] = m[2])

\* lines 314-319: one entry per discrepancy
MismatchedCommits(fetched, expected) ==
  SelectSeq([i \in 1..Len(fetched) |-> <<"Unexpected commit", fetched[i]>>],
            LAMBDA m : ~InSeq(expected, m[2]))
  \o SelectSeq([i \in 1..Len(expected) |-> <<"Missing commit", expected[i]>>],
               LAMBDA m : ~InSeq(fetched, m[2]))

Reverse(seq) == [i \in 1..Len(seq) |-> seq[Len(seq) + 1 - i]]

Fail(why) ==
  /\ pc' = "done"
  /\ result' = "false"
  /\ error' = why

\* lines 266-276: getMetadata answers with the expected commit ids
Start ==
  /\ pc = "idle"
  /\ \E e \in ExpectedLists : expectedCommitShas' = e
  /\ pc' = "downloadAndPatch"
  /\ local0' = local
  /\ UNCHANGED <<commitShas, local, sequencer, todo, issued, prompts, headMsg,
                 original, originalHasTrailers, metadata, message, messageFile,
                 result, error, pickFailedAt>>
  /\ UNCHANGED sessVars
  /\ UNCHANGED runVars

\* lines 298-324: fetch, list the range, compare with the expected ids
DownloadAndPatch ==
  /\ pc = "downloadAndPatch"
  /\ \E shas \in FetchedLists :
       /\ commitShas' = shas
       /\ sameSet' = (SetOf(shas) = SetOf(expectedCommitShas))
       /\ IF Len(MismatchedCommits(shas, expectedCommitShas)) > 0
          THEN Fail("Mismatched commits")
          ELSE pc' = "cherryPick" /\ UNCHANGED <<result, error>>
  /\ UNCHANGED <<expectedCommitShas, local, sequencer, todo, issued, prompts,
                 headMsg, original, originalHasTrailers, metadata, message,
                 messageFile, local0, pickFailedAt>>
  /\ UNCHANGED sessVars
  /\ UNCHANGED <<answers, validator, willBeLanded, lintFailed>>

\* line 327: git cherry-pick base..head starts, or refuses to (a cherry-pick
\* is already in progress, or the range is empty)
CherryPick ==
  /\ pc = "cherryPick"
  /\ issued' = issued \cup {"cherry-pick"}
  /\ IF sequencer.active \/ Len(commitShas) = 0
     THEN pc' = "abort" /\ UNCHANGED <<sequencer, todo>>
     ELSE /\ pc' = "picking"
          /\ sequencer' = [active |-> TRUE, orig |-> local]
          /\ todo' = Reverse(commitShas)
  /\ UNCHANGED <<expectedCommitShas, commitShas, local, prompts, headMsg,
                 original, originalHasTrailers, metadata, message, messageFile,
                 result, error, local0, pickFailedAt>>
  /\ UNCHANGED sessVars
  /\ UNCHANGED runVars

\* line 327, inside git: the next commit of the range applies, or conflicts
PickCommit ==
  /\ pc = "picking"
  /\ \/ /\ local' = Append(local, [src |-> Head(todo), rev |-> 0])
        /\ todo' = Tail(todo)
        /\ IF Len(todo) = 1
           THEN pc' = "validateLint" /\ sequencer' = NoSequencer
           ELSE UNCHANGED <<pc, sequencer>>
        /\ UNCHANGED pickFailedAt
     \/ /\ pc' = "abort"
        /\ pickFailedAt' = Len(commitShas) - Len(todo) + 1
        /\ UNCHANGED <<local, todo, sequencer>>
  /\ UNCHANGED <<expectedCommitShas, commitShas, issued, prompts, headMsg,
                 original, originalHasTrailers, metadata, message, messageFile,
                 result, error, local0>>
  /\ UNCHANGED sessVars
  /\ UNCHANGED runVars

\* git cherry-pick --abort: back to the HEAD the sequence started from; with
\* no cherry-pick in progress git fails and forceRunAsync ignores it
GitCherryPickAbort(branch, seqr) == IF seqr.active THEN seqr.orig ELSE branch

\* A catch block that rethrows and forgets to abort.
ThrowWithoutAbort ==
  /\ pc = "abort"
  /\ Fail("Failed to apply patches")
  /\ UNCHANGED <<expectedCommitShas, commitShas, local, sequencer, todo, issued,
                 prompts, headMsg, original, originalHasTrailers, metadata,
                 message, messageFile, local0, pickFailedAt>>
  /\ UNCHANGED sessVars
  /\ UNCHANGED runVars

\* lines 330-333
AbortCherryPick ==
  /\ pc = "abort"
  /\ issued' = issued \cup {"cherry-pick --abort"}
  /\ local' = GitCherryPickAbort(local, sequencer)
  /\ sequencer' = NoSequencer
  /\ Fail("Failed to apply patches")
  /\ UNCHANGED <<expectedCommitShas, commitShas, todo, prompts, headMsg,
                 original, originalHasTrailers, metadata, message, messageFile,
                 local0, pickFailedAt>>
  /\ UNCHANGED sessVars
  /\ UNCHANGED runVars


\* ------------------------------------------------------ CheckPick.validateLint
\* lines 339-355
LintResult(win32, lint, makeLintOk) ==
  IF win32 THEN "skipped"
  ELSE IF ~lint THEN "skipped"
  ELSE IF makeLintOk THEN "success" ELSE "failed"

\* A pipeline that goes on whatever lint says.
ProceedAfterLintAlways(lint) == TRUE

\* lines 279-283: start stops on FAILED
ProceedAfterLint(lint) == lint # "failed"

\* A lint step that takes the picked commits back when lint fails.
ValidateLintRollsBack ==
  /\ pc = "validateLint"
  /\ \E win32 \in BOOLEAN, lint \in BOOLEAN, makeLintOk \in BOOLEAN :
       /\ lintFailed' = (LintResult(win32, lint, makeLintOk) = "failed")
       /\ IF ProceedAfterLint(LintResult(win32, lint, makeLintOk))
          THEN pc' = "amend" /\ UNCHANGED <<result, error, issued, local>>
          ELSE /\ Fail("Patch still contains lint errors")
               /\ issued' = issued \cup {"reset --hard"}
               /\ local' = local0
  /\ UNCHANGED <<expectedCommitShas, commitShas, sequencer, todo, prompts, headMsg,
                 original, originalHasTrailers, metadata, message, messageFile,
                 local0, pickFailedAt>>
  /\ UNCHANGED sessVars
  /\ UNCHANGED <<answers, validator, willBeLanded, sameSet>>

\* lines 279-286
ValidateLint ==
  /\ pc = "validateLint"
  /\ \E win32 \in BOOLEAN, lint \in BOOLEAN, makeLintOk \in BOOLEAN :
       /\ lintFailed' = (LintResult(win32, lint, makeLintOk) = "failed")
       /\ IF ProceedAfterLint(LintResult(win32, lint, makeLintOk))
          THEN pc' = "amend" /\ UNCHANGED <<result, error>>
          ELSE Fail("Patch still contains lint errors")
  /\ UNCHANGED <<expectedCommitShas, commitShas, local, sequencer, todo, issued,
                 prompts, headMsg, original, originalHasTrailers, metadata,
                 message, messageFile, local0, pickFailedAt>>
  /\ UNCHANGED sessVars
  /\ UNCHANGED <<answers, validator, willBeLanded, sameSet>>

\* ------------------------------------------------------------ CheckPick.amend
\* git commit --amend: HEAD is replaced by a rewritten commit
AmendHead(branch) ==
  [branch EXCEPT ![Len(branch)] = [@ EXCEPT !.rev = @ + 1]]

\* lines 372-373: git reset --soft HEAD~(n-1), then git commit --amend --no-edit
Fixup(branch, n) == AmendHead(SubSeq(branch, 1, Len(branch) - (n - 1)))

\* A fold that does not wait for the operator's answer.
FoldAllowedUnasked(fixupAll) == TRUE

\* lines 367-371: the fold goes on only if the operator agreed
FoldAllowed(fixupAll) == fixupAll

\* lines 357-376; commitInfo and the expected ids are not read after line 372
Amend ==
  /\ pc = "amend"
  /\ IF Len(commitShas) # 1
     THEN /\ prompts' = prompts \cup {"fixup"}
          /\ \E fixupAll \in BOOLEAN :
               /\ answers' = IF fixupAll THEN answers \cup {"fixup"} ELSE answers
               /\ IF FoldAllowed(fixupAll)
                  THEN /\ issued' = issued \cup {"reset --soft", "commit --amend --no-edit"}
                       /\ local' = Fixup(local, Len(commitShas))
                       /\ pc' = "_amend"
                       /\ UNCHANGED <<result, error>>
                  ELSE /\ Fail("the ammend were not able to succeed")
                       /\ UNCHANGED <<issued, local>>
     ELSE /\ pc' = "_amend"
          /\ UNCHANGED <<prompts, answers, issued, local, result, error>>
  /\ expectedCommitShas' = <<>>
  /\ commitShas' = <<>>
  /\ UNCHANGED <<sequencer, todo, headMsg, original, originalHasTrailers, metadata,
                 message, messageFile, local0, pickFailedAt>>
  /\ UNCHANGED sessVars
  /\ UNCHANGED <<validator, willBeLanded, sameSet, lintFailed>>

NoFile == [exists |-> FALSE, content |-> <<>>]

\* lines 380-434: read HEAD's message, reconcile the generated lines into it,
\* save the amended message
AmendMessage ==
  /\ pc = "_amend"
  /\ \E raw \in RawMessages, metadataStr \in MetadataStrs :
       LET orig == Trim(raw)
           has == InterpretTrailers(orig \o <<NL>>)
           meta == Split(Trim(metadataStr))
           r == Reconcile(orig, has, meta)
       IN /\ headMsg' = raw
          /\ original' = orig
          /\ originalHasTrailers' = has
          /\ metadata' = meta
          /\ IF r.thrown
             THEN /\ Fail("Git found no trailers in the original commit message")
                  /\ UNCHANGED <<message, messageFile>>
             ELSE /\ message' = Join(r.amended)
                  /\ messageFile' = [exists |-> TRUE, content |-> Join(r.amended)]
                  /\ pc' = "promptMessage"
                  /\ UNCHANGED <<result, error>>
  /\ UNCHANGED <<expectedCommitShas, commitShas, local, sequencer, todo, issued,
                 prompts, local0, pickFailedAt>>
  /\ UNCHANGED sessVars
  /\ UNCHANGED runVars

\* What the operator may leave in the message file after editing it.
EditedMessages(content) == {content, Subject}

\* lines 377, 435-458: _amend returns without throwing when the operator
\* declines the message and no editor is configured, and amend goes on
AfterDeclinedMessage == "validate"

\* lines 435-458: the operator takes the message, or edits it, or does neither;
\* _amend's locals end with it
PromptMessage ==
  /\ pc = "promptMessage"
  /\ prompts' = prompts \cup {"useMessage"}
  /\ \E takeMessage \in BOOLEAN, editor \in BOOLEAN, editorOk \in BOOLEAN :
       IF takeMessage
       THEN /\ answers' = answers \cup {"useMessage"}
            /\ issued' = issued \cup {"commit --amend -F"}
            /\ local' = AmendHead(local)
            /\ headMsg' = messageFile.content
            /\ pc' = "validate"
            /\ UNCHANGED <<messageFile, result, error>>
       ELSE IF editor
       THEN IF editorOk
            THEN \E edited \in EditedMessages(messageFile.content) :
                   /\ messageFile' = [exists |-> TRUE, content |-> edited]
                   /\ issued' = issued \cup {"commit --amend -F"}
                   /\ local' = AmendHead(local)
                   /\ headMsg' = edited
                   /\ pc' = "validate"
                   /\ UNCHANGED <<result, error, answers>>
            ELSE /\ Fail("Failed to edit the message using the configured editor")
                 /\ UNCHANGED <<issued, local, headMsg, messageFile, answers>>
       ELSE /\ pc' = AfterDeclinedMessage
            /\ UNCHANGED <<issued, local, headMsg, messageFile, result, error, answers>>
  /\ original' = <<>>
  /\ originalHasTrailers' = FALSE
  /\ metadata' = <<>>
  /\ message' = <<>>
  /\ UNCHANGED <<expectedCommitShas, commitShas, sequencer, todo, local0, pickFailedAt>>
  /\ UNCHANGED sessVars
  /\ UNCHANGED <<validator, willBeLanded, sameSet, lintFailed>>

\* ------------------------------------------ CheckPick.validateCommitAndFinish
\* lines 145-153: git rev-list --reverse upstream/branch...HEAD, oldest first
GetStrayCommits(branch) == branch

\* A guard that is never taken.
TooManyStrayNever(stray) == FALSE

\* A guard that lets two stray commits through.
TooManyStrayOffByOne(stray) == Len(stray) > 2

\* line 465
TooManyStray(stray) == Len(stray) > 1

\* An override offered for every failure of the validator.
OffersOverrideAnyFailure(exit) == exit # "0"

\* line 481: e.code === 1
OffersOverride(exit) == exit = "1"

\* lines 495-499: the range form when several commits remain, else HEAD's id
WillBeLanded(stray) == IF Len(stray) > 1 THEN "range" ELSE "sha"

\* lines 461-501
ValidateCommitAndFinish ==
  /\ pc = "validate"
  /\ pc' = "done"
  /\ IF TooManyStray(GetStrayCommits(local))
     THEN /\ result' = "false"
          /\ error' = "There is more than one commit in the PR"
          /\ validator' = "not run"
          /\ UNCHANGED <<prompts, answers, willBeLanded>>
     ELSE \E exit \in {"0", "1", "other"} :
            /\ validator' = exit
            /\ IF exit = "0"
               THEN /\ result' = "true"
                    /\ willBeLanded' = WillBeLanded(GetStrayCommits(local))
                    /\ UNCHANGED <<error, prompts, answers>>
               ELSE IF OffersOverride(exit)
               THEN /\ prompts' = prompts \cup {"forceLand"}
                    /\ \E forceLand \in BOOLEAN :
                         IF forceLand
                         THEN /\ answers' = answers \cup {"forceLand"}
                              /\ result' = "true"
                              /\ willBeLanded' = WillBeLanded(GetStrayCommits(local))
                              /\ UNCHANGED error
                         ELSE /\ result' = "false"
                              /\ error' = "Please fix the commit message and try again"
                              /\ UNCHANGED <<answers, willBeLanded>>
               ELSE /\ result' = "false"
                    /\ error' = "Please fix the commit message and try again"
                    /\ UNCHANGED <<prompts, answers, willBeLanded>>
  /\ UNCHANGED <<expectedCommitShas, commitShas, local, sequencer, todo, issued,
                 headMsg, original, originalHasTrailers, metadata, message,
                 messageFile, local0, pickFailedAt>>
  /\ UNCHANGED sessVars
  /\ UNCHANGED <<sameSet, lintFailed>>


\* ------------------------------------------------------------ ReleaseSession
\* The two classes of the file are the two halves of one engine object:
\* ReleaseSession reads this.prid and this.pullDir, which CheckPick defines,
\* and CheckPick reads this.getStrayCommits, which ReleaseSession defines.
Prids == {100, 200}
Configs == {"local config", "persisted config"}
States == {"STARTED", "APPLYING", "AMENDING"}

\* A field that is not set (undefined) is 0 for a pull-request id and "" else.
AbsentFile == [kind |-> "absent", state |-> "", prid |-> 0, config |-> ""]
CorruptFile == [kind |-> "corrupt", state |-> "", prid |-> 0, config |-> ""]
JsonFile(state, id, cfg) == [kind |-> "ok", state |-> state, prid |-> id, config |-> cfg]

\* file.js readJson: a missing file reads as the empty object, a file that is
\* not JSON throws
ReadJson(file) ==
  [thrown |-> file.kind = "corrupt",
   state |-> file.state, prid |-> file.prid, config |-> file.config]

Before == [sessionFile |-> sessionFile, prid |-> prid, config |-> config,
           pullDirs |-> pullDirs, local |-> local]

Called(op, threw, asked, answer) ==
  call' = [op |-> op, before |-> Before, threw |-> threw, asked |-> asked,
           answer |-> answer]

landRest == <<pc, expectedCommitShas, commitShas, todo, headMsg, original,
              originalHasTrailers, metadata, message, messageFile, result, error,
              local0, pickFailedAt>>

\* lines 70-76
StartReleasing ==
  /\ sessionFile' = JsonFile("STARTED", prid, config)
  /\ Called("startReleasing", FALSE, FALSE, FALSE)
  /\ UNCHANGED <<prid, config, pullDirs>>
  /\ UNCHANGED landVars
  /\ UNCHANGED runVars

\* A test that takes any session with an id for this pull request's.
OwnsPullDirAnySession(sess, id) == sess.prid # 0

\* line 85: sess.prid && sess.prid === this.prid
OwnsPullDir(sess, id) == sess.prid # 0 /\ sess.prid = id

\* lines 78-90
CleanFiles ==
  /\ LET sess == ReadJson(sessionFile)
     IN IF sess.thrown
        THEN UNCHANGED pullDirs
        ELSE IF OwnsPullDir(sess, prid)
             THEN pullDirs' = pullDirs \ {prid}
             ELSE UNCHANGED pullDirs
  /\ sessionFile' = AbsentFile
  /\ Called("cleanFiles", FALSE, FALSE, FALSE)
  /\ UNCHANGED <<prid, config>>
  /\ UNCHANGED landVars
  /\ UNCHANGED runVars

\* lines 92-95: Object.assign(old, {state: ...}) written back
UpdateSession ==
  /\ \E state \in {"APPLYING", "AMENDING"} :
       LET old == ReadJson(sessionFile)
       IN IF old.thrown
          THEN /\ UNCHANGED sessionFile
               /\ Called("updateSession", TRUE, FALSE, FALSE)
          ELSE /\ sessionFile' = JsonFile(state, old.prid, old.config)
               /\ Called("updateSession", FALSE, FALSE, FALSE)
  /\ UNCHANGED <<prid, config, pullDirs>>
  /\ UNCHANGED landVars
  /\ UNCHANGED runVars

\* lines 97-99
HasStarted == ReadJson(sessionFile).prid # 0 /\ ReadJson(sessionFile).prid = prid

\* lines 101-103
IsApplying == ReadJson(sessionFile).state = "APPLYING"

\* lines 110-117
Restore ==
  /\ LET sess == ReadJson(sessionFile)
     IN IF sess.thrown
        THEN /\ UNCHANGED <<prid, config>>
             /\ Called("restore", TRUE, FALSE, FALSE)
        ELSE /\ IF sess.prid # 0
                THEN prid' = sess.prid /\ config' = sess.config
                ELSE UNCHANGED <<prid, config>>
             /\ Called("restore", FALSE, FALSE, FALSE)
  /\ UNCHANGED <<sessionFile, pullDirs>>
  /\ UNCHANGED landVars
  /\ UNCHANGED runVars

\* lines 105-108
CherryPickInProgress == sequencer.active

\* lines 119-130
TryAbortCherryPick ==
  /\ IF ~CherryPickInProgress
     THEN /\ Called("tryAbortCherryPick", FALSE, FALSE, FALSE)
          /\ UNCHANGED <<local, sequencer, issued, prompts>>
     ELSE /\ prompts' = prompts \cup {"abortCherryPick"}
          /\ \E shouldAbortCherryPick \in BOOLEAN :
               /\ Called("tryAbortCherryPick", FALSE, TRUE, shouldAbortCherryPick)
               /\ IF shouldAbortCherryPick
                  THEN /\ issued' = issued \cup {"cherry-pick --abort"}
                       /\ local' = GitCherryPickAbort(local, sequencer)
                       /\ sequencer' = NoSequencer
                  ELSE UNCHANGED <<local, sequencer, issued>>
  /\ UNCHANGED <<sessionFile, prid, config, pullDirs>>
  /\ UNCHANGED landRest
  /\ UNCHANGED runVars

\* A reset that does not wait for the operator's answer.
ResetAllowedUnasked(shouldReset) == TRUE

\* line 169: the reset runs only if the operator agreed
ResetAllowed(shouldReset) == shouldReset

\* lines 155-173; git reset --hard may or may not clear an unfinished sequence
TryResetHead ==
  /\ IF Len(GetStrayCommits(local)) = 0
     THEN /\ Called("tryResetHead", FALSE, FALSE, FALSE)
          /\ UNCHANGED <<local, sequencer, issued, prompts>>
     ELSE /\ prompts' = prompts \cup {"reset"}
          /\ \E shouldReset \in BOOLEAN :
               /\ Called("tryResetHead", FALSE, TRUE, shouldReset)
               /\ IF ResetAllowed(shouldReset)
                  THEN /\ issued' = issued \cup {"reset --hard"}
                       /\ local' = <<>>
                       /\ sequencer' \in {sequencer, NoSequencer}
                  ELSE UNCHANGED <<local, sequencer, issued>>
  /\ UNCHANGED <<sessionFile, prid, config, pullDirs>>
  /\ UNCHANGED landRest
  /\ UNCHANGED runVars

\* ---------------------------------------------------------- specifications
NoCall == [op |-> "none", before |-> [sessionFile |-> AbsentFile, prid |-> 0,
           config |-> "", pullDirs |-> {}, local |-> <<>>], threw |-> FALSE,
           asked |-> FALSE, answer |-> FALSE]

\* The repository start is called in: nothing or one commit on top of the
\* upstream branch, and perhaps an earlier cherry-pick left in progress.
InitRepo ==
  /\ local \in {<<>>, <<StrayCommit>>}
  /\ sequencer \in {NoSequencer, [active |-> TRUE, orig |-> <<>>]}
  /\ issued = {}
  /\ prompts = {}

InitLocals ==
  /\ pc = "idle"
  /\ expectedCommitShas = <<>>
  /\ commitShas = <<>>
  /\ todo = <<>>
  /\ headMsg = <<>>
  /\ original = <<>>
  /\ originalHasTrailers = FALSE
  /\ metadata = <<>>
  /\ message = <<>>
  /\ messageFile = NoFile
  /\ result = "none"
  /\ error = ""
  /\ local0 = <<>>
  /\ pickFailedAt = 0
  /\ answers = {}
  /\ validator = "none"
  /\ willBeLanded = "none"
  /\ sameSet = FALSE
  /\ lintFailed = FALSE

\* CheckPick.start on a fresh engine
Init ==
  /\ InitRepo
  /\ InitLocals
  /\ sessionFile = AbsentFile
  /\ prid = 100
  /\ config = "local config"
  /\ pullDirs = {}
  /\ call = NoCall

Next ==
  \/ Start
  \/ DownloadAndPatch
  \/ CherryPick
  \/ PickCommit
  \/ AbortCherryPick
  \/ ValidateLint
  \/ Amend
  \/ AmendMessage
  \/ PromptMessage
  \/ ValidateCommitAndFinish

Spec == Init /\ [][Next]_vars

\* The session store: any persisted file, and the methods of ReleaseSession
\* called in any order
InitSession ==
  /\ InitRepo
  /\ InitLocals
  /\ sessionFile \in {AbsentFile, CorruptFile}
       \cup {JsonFile(s, i, c) : s \in States, i \in Prids, c \in Configs}
  /\ prid \in Prids
  /\ config = "local config"
  /\ pullDirs \in SUBSET Prids
  /\ call = NoCall

NextSession ==
  \/ StartReleasing
  \/ CleanFiles
  \/ UpdateSession
  \/ Restore
  \/ TryAbortCherryPick
  \/ TryResetHead

SpecSession == InitSession /\ [][NextSession]_vars

\* A landing run with its session: startReleasing may be called before
\* CheckPick.start, which then runs to its end
StartSession ==
  /\ pc = "idle"
  /\ StartReleasing

NextRun ==
  \/ StartSession
  \/ Start
  \/ DownloadAndPatch
  \/ CherryPick
  \/ PickCommit
  \/ AbortCherryPick
  \/ ValidateLint
  \/ Amend
  \/ AmendMessage
  \/ PromptMessage
  \/ ValidateCommitAndFinish

SpecRun == Init /\ [][NextRun]_vars


\* ------------------------------------------------------------------ claims

\* C1: verification precedes mutation. Once downloadAndPatch has listed the
\* fetched range, if the fetched and the expected commit ids differ as sets
\* then the call has failed with the mismatch error, no git command that
\* changes the repository was issued, and HEAD is what it was before the call.
C1_VerificationPrecedesMutation ==
  (pc \notin {"idle", "downloadAndPatch"} /\ SetOf(commitShas) # SetOf(expectedCommitShas))
    => /\ pc = "done"
       /\ result = "false"
       /\ error = "Mismatched commits"
       /\ issued = {}
       /\ GetCurrentRev(local) = GetCurrentRev(local0)

\* C1 witness: a mismatch in which a commit is missing and none is unexpected,
\* on a branch that already carried a commit.
C1_Witness ==
  /\ pc = "done"
  /\ error = "Mismatched commits"
  /\ SetOf(commitShas) # {}
  /\ SetOf(commitShas) \subseteq SetOf(expectedCommitShas)
  /\ SetOf(commitShas) # SetOf(expectedCommitShas)
  /\ local = <<StrayCommit>>

\* C2: all-or-nothing apply. When the pick of a commit of the range failed
\* (the first, a middle or the last one), downloadAndPatch has, once it is
\* over, run git cherry-pick --abort and failed, and HEAD is what it was
\* before the call: no applied prefix of the range is left on the branch.
C2_AllOrNothingApply ==
  (pc = "done" /\ pickFailedAt > 0)
    => /\ result = "false"
       /\ error = "Failed to apply patches"
       /\ "cherry-pick --abort" \in issued
       /\ GetCurrentRev(local) = GetCurrentRev(local0)
       /\ ~sequencer.active

\* C2 witness: a range of three commits whose second commit failed to apply.
C2_Witness ==
  /\ pc = "done"
  /\ Len(commitShas) = 3
  /\ pickFailedAt = 2
  /\ local0 = <<StrayCommit>>


\* C4: stale session rejection. After restore() has read a session whose
\* pull-request id differs from the one the engine works on, the engine's
\* pull-request id and config are what they were before the call.
C4_StaleSessionRejected ==
  (call.op = "restore" /\ ~call.threw
     /\ call.before.sessionFile.prid # call.before.prid)
    => /\ prid = call.before.prid
       /\ config = call.before.config

\* C5: start does not overwrite another pull request's session. After
\* startReleasing() was called while a session with a different pull-request
\* id was persisted, the session file is what it was before the call.
C5_StartKeepsForeignSession ==
  (call.op = "startReleasing"
     /\ call.before.sessionFile.kind = "ok"
     /\ call.before.sessionFile.prid # 0
     /\ call.before.sessionFile.prid # call.before.prid)
    => sessionFile = call.before.sessionFile

\* _amend has computed and saved the amended message and not yet returned.
Reconciled == pc = "promptMessage"

OrigLines == Split(original)
MsgLines == Split(message)
MetaIdx == 1..Len(metadata)

\* The generated line k occurs verbatim in the original message.
Occurs(k) == Includes(original, metadata[k])
\* The generated line k is one the loop inserts.
Inserted(k) == ~(Len(metadata[k]) # 0 /\ Occurs(k))
\* The generated line k is a Backport-PR-URL line not present in the original.
InsertedBackport(k) == BACKPORT_RE(metadata[k]) /\ ~Occurs(k)
\* How many such backport lines come after line k.
LaterBackports(k) == Cardinality({j \in MetaIdx : j > k /\ InsertedBackport(j)})

\* Zero-based index of the first original line the PR-URL pattern matches.
PRIdx == FindIndexPR(OrigLines)
\* Zero-based index of the first original line the Reviewed-By pattern matches.
RBIdx == FindIndexReview(OrigLines)

RECURSIVE IsSubseq(_, _)
IsSubseq(a, b) ==
  IF Len(a) = 0 THEN TRUE
  ELSE IF Len(b) = 0 THEN FALSE
  ELSE IF a[1] = b[1] THEN IsSubseq(Tail(a), Tail(b))
  ELSE IsSubseq(a, Tail(b))

BlankCount(lines) == Cardinality({i \in 1..Len(lines) : lines[i] = Blank})

\* C3 as stated: when git finds trailers in the original message and every
\* generated line occurs verbatim in it, the amended message is the original.
C3_Idempotence_AsClaimed ==
  (Reconciled /\ originalHasTrailers /\ \A k \in MetaIdx : Occurs(k))
    => message = original

\* C3 as amended: when git finds trailers in the original message and every
\* generated line is non-empty and occurs verbatim in it, the amended message
\* is the original: no line added, removed or moved, no empty line appended.
C3_Idempotence ==
  (Reconciled /\ originalHasTrailers
     /\ \A k \in MetaIdx : Len(metadata[k]) # 0 /\ Occurs(k))
    => message = original

\* C3 witness: two generated lines, both already in a message with trailers.
C3_Witness ==
  /\ Reconciled
  /\ originalHasTrailers
  /\ Len(metadata) = 2
  /\ metadata[1] # metadata[2]
  /\ \A k \in MetaIdx : Len(metadata[k]) # 0 /\ Occurs(k)

\* C6: a trailer conflict is fatal. Once _amend has read the message, if git
\* found no trailers in it and a non-empty generated line occurs verbatim in
\* it, the operation has failed with the conflict error: no message file was
\* saved, the operator was not asked, no git commit --amend -F ran, and HEAD's
\* message is the one that was read.
C6_TrailerConflictIsFatal ==
  (Len(metadata) > 0 /\ ~originalHasTrailers
     /\ \E k \in MetaIdx : Len(metadata[k]) # 0 /\ Occurs(k))
    => /\ pc = "done"
       /\ result = "false"
       /\ error = "Git found no trailers in the original commit message"
       /\ ~messageFile.exists
       /\ "useMessage" \notin prompts
       /\ "commit --amend -F" \notin issued
       /\ Trim(headMsg) = original

\* C6 witness: the conflicting line is the second one, after a first line that
\* the loop had already inserted, and it occurs inside a longer line only.
C6_Witness ==
  /\ pc = "done"
  /\ error = "Git found no trailers in the original commit message"
  /\ Len(metadata) = 2
  /\ Inserted(1)
  /\ ~Inserted(2)
  /\ \A i \in 1..Len(OrigLines) : OrigLines[i] # metadata[2]

\* C7 as stated: when a line of the original message matches the PR-URL
\* pattern, every generated backport line not present in the original is, in
\* the amended message, at the index right after the first such line, and the
\* original lines keep their order.
C7_OrderingRule_AsClaimed ==
  (Reconciled /\ PRIdx # -1)
    => /\ \A k \in MetaIdx : InsertedBackport(k) => MsgLines[PRIdx + 2] = metadata[k]
       /\ IsSubseq(OrigLines, MsgLines)

\* C7 as amended: when a line of the original message matches the PR-URL
\* pattern, the generated backport lines not present in the original follow
\* the first such line directly, the last generated one first: a backport line
\* is at the index right after it when no later backport line is inserted too.
\* The original lines keep their order.
C7_OrderingRule ==
  (Reconciled /\ PRIdx # -1)
    => /\ \A k \in MetaIdx :
            InsertedBackport(k) => MsgLines[PRIdx + 2 + LaterBackports(k)] = metadata[k]
       /\ MsgLines[PRIdx + 1] = OrigLines[PRIdx + 1]
       /\ IsSubseq(OrigLines, MsgLines)

\* C7 witness: two different backport lines are inserted after the PR-URL
\* line of a message with trailers; the one generated first ends up second.
C7_Witness ==
  /\ Reconciled
  /\ originalHasTrailers
  /\ PRIdx # -1
  /\ Len(metadata) = 2
  /\ InsertedBackport(1)
  /\ InsertedBackport(2)
  /\ metadata[1] # metadata[2]
  /\ MsgLines[PRIdx + 2] = metadata[2]
  /\ MsgLines[PRIdx + 3] = metadata[1]

\* C8 as stated: when no line of the original message matches the PR-URL
\* pattern and one matches the Reviewed-By pattern, every generated backport
\* line not present in the original is, in the amended message, at the index
\* the first Reviewed-By line had, directly before that line.
C8_FallbackOrdering_AsClaimed ==
  (Reconciled /\ PRIdx = -1 /\ RBIdx # -1)
    => \A k \in MetaIdx :
         InsertedBackport(k) => /\ MsgLines[RBIdx + 1] = metadata[k]
                                /\ MsgLines[RBIdx + 2] = OrigLines[RBIdx + 1]

\* C8 as amended: when no line of the original message matches the PR-URL
\* pattern and one matches the Reviewed-By pattern, a generated backport line
\* not present in the original is at the index the first Reviewed-By line had
\* provided no generated line matching the PR-URL pattern was inserted before
\* it; the Reviewed-By line follows it directly unless a later backport line
\* is inserted in between.
C8_FallbackOrdering ==
  (Reconciled /\ PRIdx = -1 /\ RBIdx # -1)
    => \A k \in MetaIdx :
         (/\ InsertedBackport(k)
          /\ \A j \in MetaIdx : (j < k /\ Inserted(j)) => ~PR_RE(metadata[j]))
           => /\ MsgLines[RBIdx + 1] = metadata[k]
              /\ LaterBackports(k) = 0 => MsgLines[RBIdx + 2] = OrigLines[RBIdx + 1]

\* C8 witness: the backport line is generated after a Reviewed-By line and
\* lands before the Reviewed-By line of a message with trailers.
C8_Witness ==
  /\ Reconciled
  /\ originalHasTrailers
  /\ PRIdx = -1
  /\ RBIdx # -1
  /\ Len(metadata) = 2
  /\ REVIEW_RE(metadata[1])
  /\ InsertedBackport(2)
  /\ MsgLines[RBIdx + 1] = metadata[2]
  /\ MsgLines[RBIdx + 2] = OrigLines[RBIdx + 1]

\* C9: when neither the original message nor a line inserted earlier matches
\* the PR-URL or the Reviewed-By pattern, an inserted backport line that is the
\* last line inserted is the last line of the amended message.
C9_NoAnchorAtEnd ==
  (Reconciled /\ PRIdx = -1 /\ RBIdx = -1)
    => \A k \in MetaIdx :
         (/\ InsertedBackport(k)
          /\ \A j \in MetaIdx : (j < k /\ Inserted(j))
                => (~PR_RE(metadata[j]) /\ ~REVIEW_RE(metadata[j]))
          /\ \A j \in MetaIdx : j > k => ~Inserted(j))
           => MsgLines[Len(MsgLines)] = metadata[k]

\* C10 as stated: when git found no trailers in the original message, the
\* amended message is the original lines, one empty line, then the generated
\* lines, and exactly one empty line was added.
C10_BlankLineInsertion_AsClaimed ==
  (Reconciled /\ ~originalHasTrailers)
    => /\ MsgLines = OrigLines \o <<Blank>> \o metadata
       /\ BlankCount(MsgLines) = BlankCount(OrigLines) + 1

\* C10 as amended: when git found no trailers in the original message and
\* every generated line is non-empty and is no Backport-PR-URL line, the
\* amended message is the original lines, one empty line, then the generated
\* lines, and exactly one empty line was added.
C10_BlankLineInsertion ==
  (Reconciled /\ ~originalHasTrailers
     /\ \A k \in MetaIdx : metadata[k] # Blank /\ ~BACKPORT_RE(metadata[k]))
    => /\ MsgLines = OrigLines \o <<Blank>> \o metadata
       /\ BlankCount(MsgLines) = BlankCount(OrigLines) + 1

\* C10 witness: two generated lines appended to a message of two paragraphs
\* in which git found no trailers.
C10_Witness ==
  /\ Reconciled
  /\ ~originalHasTrailers
  /\ BlankCount(OrigLines) = 1
  /\ Len(metadata) = 2
  /\ \A k \in MetaIdx : metadata[k] # Blank /\ ~BACKPORT_RE(metadata[k])

\* C11: session lifecycle. In a landing run whose session was started, the
\* persisted state is APPLYING while the patches are applied and AMENDING
\* while the commit is amended, and once start has returned true the session
\* file no longer exists.
C11_SessionLifecycle ==
  sessionFile.kind = "ok" \/ call.op = "startReleasing" =>
    /\ pc \in {"picking", "abort", "validateLint"} => sessionFile.state = "APPLYING"
    /\ pc \in {"_amend", "promptMessage", "validate"} => sessionFile.state = "AMENDING"
    /\ result = "true" => sessionFile = AbsentFile

\* The operator declined 'Use this message?' and no editor is configured:
\* the question was asked, no commit --amend -F was run, the editor did not fail.
DeclinedNoEditor ==
  /\ "useMessage" \in prompts
  /\ "commit --amend -F" \notin issued
  /\ error # "Failed to edit the message using the configured editor"

\* C12: a declined message without an editor fails. Once the operator has
\* declined the message and no editor is configured, start has returned false,
\* validateCommitAndFinish was not reached, and the saved message file exists.
C12_DeclinedNoEditorFails ==
  DeclinedNoEditor =>
    /\ pc = "done"
    /\ result = "false"
    /\ validator = "none"
    /\ messageFile.exists

\* C13: fold requires consent. Every step of amend on a range of one commit
\* asks nothing, runs no git command and leaves the branch as it is; on a
\* range of several commits it asks the operator, and either the operator
\* agreed and reset --soft and commit --amend --no-edit folded the range into
\* one commit, or the operator declined and start has failed with no command
\* run, the branch as it was, and no message read, reconciled or saved.
C13_FoldRequiresConsent ==
  [][pc = "amend" =>
       /\ Len(commitShas) = 1 =>
            /\ prompts' = prompts
            /\ issued' = issued
            /\ local' = local
            /\ pc' = "_amend"
       /\ Len(commitShas) > 1 =>
            /\ prompts' = prompts \cup {"fixup"}
            /\ IF "fixup" \in answers'
               THEN /\ issued' = issued \cup {"reset --soft", "commit --amend --no-edit"}
                    /\ Len(local') = Len(local) - (Len(commitShas) - 1)
                    /\ pc' = "_amend"
               ELSE /\ issued' = issued
                    /\ local' = local
                    /\ pc' = "done"
                    /\ result' = "false"
                    /\ error' = "the ammend were not able to succeed"
                    /\ headMsg' = headMsg
                    /\ messageFile' = NoFile]_vars

\* A range of several commits was folded with the operator's consent; in
\* another run the operator declined.
C13_Witness ==
  /\ pc = "_amend"
  /\ "fixup" \in answers
  /\ "reset --soft" \in issued
  /\ Len(local) = Len(local0) + 1

\* C14: narrow forced override. Once validateCommitAndFinish has run the
\* validator, the forced-landing question was asked exactly when the
\* validator exited with code 1; after any other failure start returned
\* false; and when the question was asked start returned true exactly when
\* the operator accepted.
C14_NarrowForcedOverride ==
  validator \in {"0", "1", "other"} =>
    /\ "forceLand" \in prompts <=> validator = "1"
    /\ validator = "other" => result = "false" /\ "forceLand" \notin answers
    /\ validator = "1" => (result = "true" <=> "forceLand" \in answers)
    /\ validator = "1" /\ "forceLand" \notin answers => result = "false"

\* The validator exited with 1 and the operator accepted the forced landing.
C14_Witness ==
  /\ validator = "1"
  /\ "forceLand" \in answers
  /\ result = "true"

\* C15: one commit per landing. Once validateCommitAndFinish has run with
\* more than one stray commit on the branch, start has returned false, the
\* validator was not run and the forced-landing question was not asked.
C15_OneCommitPerLanding ==
  (validator # "none" /\ Len(GetStrayCommits(local)) > 1) =>
    /\ pc = "done"
    /\ result = "false"
    /\ validator = "not run"
    /\ "forceLand" \notin prompts
    /\ error = "There is more than one commit in the PR"

\* The landed commit sits on top of a commit that was already on the branch.
C15_Witness ==
  /\ validator = "not run"
  /\ Len(GetStrayCommits(local)) = 2
  /\ local0 = <<StrayCommit>>

\* C16: cleanup scope. After cleanFiles the session file is gone; the scratch
\* directory of the current pull request is gone as well if the session was
\* readable and its id was set and equal to the current one, and otherwise,
\* in particular for a corrupt session file, every scratch directory that
\* existed still exists. No other directory is ever removed.
C16_CleanupScope ==
  call.op = "cleanFiles" =>
    LET b == call.before
        owned == /\ b.sessionFile.kind # "corrupt"
                 /\ b.sessionFile.prid # 0
                 /\ b.sessionFile.prid = b.prid
    IN /\ sessionFile = AbsentFile
       /\ ~call.threw
       /\ pullDirs = IF owned THEN b.pullDirs \ {b.prid} ELSE b.pullDirs

\* cleanFiles removed the scratch directory of its own session and left the
\* other pull request's directory in place.
C16_Witness ==
  /\ call.op = "cleanFiles"
  /\ call.before.sessionFile.kind = "ok"
  /\ call.before.sessionFile.prid = call.before.prid
  /\ call.before.pullDirs = Prids
  /\ pullDirs = Prids \ {call.before.prid}

\* C17: resync requires consent. After tryResetHead, which never throws: with
\* no stray commit nothing was asked and the branch is as it was; with stray
\* commits the operator was asked, and the branch was reset to the upstream
\* ref if the operator agreed and is as it was if the operator declined. A
\* reset --hard was never run without the question.
C17_ResyncRequiresConsent ==
  /\ "reset --hard" \in issued => "reset" \in prompts
  /\ call.op = "tryResetHead" =>
       /\ ~call.threw
       /\ call.asked <=> Len(GetStrayCommits(call.before.local)) > 0
       /\ ~call.asked => local = call.before.local
       /\ call.asked /\ call.answer => local = <<>> /\ "reset --hard" \in issued
       /\ call.asked /\ ~call.answer => local = call.before.local

\* The operator declined the reset and the stray commit is still there.
C17_Witness ==
  /\ call.op = "tryResetHead"
  /\ call.asked
  /\ ~call.answer
  /\ local = <<StrayCommit>>
  /\ "reset --hard" \notin issued

\* C18: the full chain. When start has returned true, the fetched ids were
\* the expected set, the cherry-pick ran and neither failed nor was aborted,
\* lint did not fail, the fold question, if asked, was answered yes and no
\* fold ran without it, the amended message was saved (no trailer conflict),
\* at most one stray commit is on the branch, and the validator passed or
\* exited with 1 with the forced landing accepted.
C18_SuccessOnlyAlongFullChain ==
  result = "true" =>
    /\ pc = "done"
    /\ sameSet
    /\ "cherry-pick" \in issued
    /\ "cherry-pick --abort" \notin issued
    /\ pickFailedAt = 0
    /\ ~sequencer.active
    /\ ~lintFailed
    /\ "fixup" \in prompts => "fixup" \in answers
    /\ "reset --soft" \in issued => "fixup" \in answers
    /\ messageFile.exists
    /\ error # "Git found no trailers in the original commit message"
    /\ Len(GetStrayCommits(local)) <= 1
    /\ \/ validator = "0"
       \/ validator = "1" /\ "forceLand" \in answers

\* A landing that went through the fold and the forced override.
C18_Witness ==
  /\ result = "true"
  /\ "fixup" \in answers
  /\ validator = "1"
  /\ "forceLand" \in answers

\* The cherry-pick has succeeded and start has not returned yet.
Applied == pc \in {"validateLint", "amend", "_amend", "promptMessage", "validate"}

\* C19: no rollback after a successful apply. Every step that makes start
\* fail after the cherry-pick succeeded runs no git command and leaves the
\* branch as it is: the branch still starts with what it held before the
\* call, has more commits than before, and so HEAD is not what it was.
C19_NoRollbackAfterApply ==
  [][(Applied /\ pc' = "done" /\ result' = "false") =>
       /\ issued' = issued
       /\ "cherry-pick --abort" \notin issued'
       /\ "reset --hard" \notin issued'
       /\ local' = local
       /\ sequencer' = sequencer
       /\ Len(local') > Len(local0')
       /\ SubSeq(local', 1, Len(local0')) = local0'
       /\ GetCurrentRev(local') # GetCurrentRev(local0')]_vars

\* start failed on a trailer conflict after the range was folded.
C19_Witness ==
  /\ pc = "done"
  /\ result = "false"
  /\ error = "Git found no trailers in the original commit message"
  /\ "reset --soft" \in issued
  /\ local # local0

\* C20: the range form is unreachable. Whenever validateCommitAndFinish has
\* printed its 'Done in' report, at most one stray commit is on the branch
\* and the report names a single revision, never a range.
C20_RangeFormUnreachable ==
  /\ willBeLanded # "range"
  /\ willBeLanded # "none" =>
       /\ Len(GetStrayCommits(local)) <= 1
       /\ willBeLanded = "sha"
       /\ result = "true"

\* The report was printed for the one commit on the branch.
C20_Witness ==
  /\ willBeLanded = "sha"
  /\ Len(GetStrayCommits(local)) = 1
====
